---- MODULE Spec2Model ----
(***************************************************************************)
(* City suggestion engine (cityRepository.go): the record store, the       *)
(* matching and scoring of one query, and the ranking of its suggestions.  *)
(*                                                                         *)
(* A Go string is modelled as the sequence of its runes; a rune is a short *)
(* token ("a", ",", "E2" for the two-byte rune U+00C9, "e2" for U+00E9,    *)
(* "NUL" for U+0000).  Go indexes from 0, TLA+ from 1: a[i] of the code is *)
(* a[i + 1] here.                                                          *)
(***************************************************************************)
EXTENDS Integers, Sequences, FiniteSets, TLC

VARIABLES
    records,      \* cityRepository.records, the store
    loaded,       \* history: the store as createCityRepositoryFor loaded it
    stackBuf,     \* build property: []rune(s) lives in a 32-rune stack buffer
    pc,           \* per request: "idle", "scan", "sort", "done", "panic"
    query,        \* per request: the cityQuery being served
    scanned,      \* per request: records the scan loop has visited
    result,       \* per request: suggestions.Suggestions
    recordAlternateNames, \* argument of findMatchingAlternateNameWholeWord
    queryName,            \* argument of findMatchingAlternateNameWholeWord
    wholeWord             \* its outcome

vars == <<records, loaded, stackBuf, pc, query, scanned, result,
          recordAlternateNames, queryName, wholeWord>>

(***************************************************************************)
(* Bounds of the model.                                                    *)
(***************************************************************************)
MaxStore == 3
MaxAlt == 4
MaxQueryName == 2
NumRequests == 2

(***************************************************************************)
(* Field positions of a record.                                            *)
(***************************************************************************)
cityNameIndex == 1
cityASCIINameIndex == 2
cityAlernateNamesIndex == 3
cityLatitudeIndex == 4
cityLongitudeIndex == 5
cityCountryCodeIndex == 8
cityAdminLevel1CodeIndex == 10

(***************************************************************************)
(* Runes and strings.                                                      *)
(***************************************************************************)
UpperRunes ==
    <<"A","B","C","D","E","F","G","H","I","J","K","L","M","N","O","P","Q",
      "R","S","T","U","V","W","X","Y","Z","E2">>

LowerRunes ==
    <<"a","b","c","d","e","f","g","h","i","j","k","l","m","n","o","p","q",
      "r","s","t","u","v","w","x","y","z","e2">>

LowerOf ==
    [c \in {UpperRunes[i] : i \in 1..Len(UpperRunes)} |->
        LowerRunes[CHOOSE i \in 1..Len(UpperRunes) : UpperRunes[i] = c]]

\* unicode.ToLower on one rune
ToLowerRune(c) == IF c \in DOMAIN LowerOf THEN LowerOf[c] ELSE c

\* strings.ToLower
ToLower(s) == [i \in 1..Len(s) |-> ToLowerRune(s[i])]

\* bytes of the UTF-8 encoding of one rune
RuneBytes(c) == IF c \in {"E2", "e2"} THEN 2 ELSE 1

\* len(s[:i]) in bytes, for the first i runes of s
RECURSIVE ByteOffset(_, _)
ByteOffset(s, i) == IF i = 0 THEN 0 ELSE ByteOffset(s, i - 1) + RuneBytes(s[i])

\* utf8.RuneCountInString
RuneCountInString(s) == Len(s)

\* sub occurs in s at rune position i (0-based)
OccursAt(s, sub, i) ==
    /\ i + Len(sub) <= Len(s)
    /\ \A k \in 1..Len(sub) : s[i + k] = sub[k]

\* strings.Contains
Contains(s, sub) == \E i \in 0..(Len(s) - Len(sub)) : OccursAt(s, sub, i)

\* rune position of the first occurrence of sub in s
FirstOccurrence(s, sub) ==
    CHOOSE i \in 0..(Len(s) - Len(sub)) :
        /\ OccursAt(s, sub, i)
        /\ \A j \in 0..(i - 1) : ~OccursAt(s, sub, j)

\* strings.Index: the BYTE offset of the first occurrence, -1 when there is none
Index(s, sub) ==
    IF Contains(s, sub) THEN ByteOffset(s, FirstOccurrence(s, sub)) ELSE -1

(***************************************************************************)
(* []rune(s): the capacity of the slice the conversion returns.  The       *)
(* runtime either uses a 32-rune stack buffer (when the slice does not     *)
(* escape and fits) or a heap block rounded up to a malloc size class; the *)
(* spare runes are zero.                                                   *)
(***************************************************************************)
tmpStringBufSize == 32

SizeClasses == <<8, 16, 24, 32, 48, 64, 80, 96, 112, 128>>

roundupsize(bytes) ==
    IF bytes = 0 THEN 0
    ELSE IF bytes > 128 THEN bytes
    ELSE SizeClasses[CHOOSE i \in 1..Len(SizeClasses) :
                        /\ SizeClasses[i] >= bytes
                        /\ \A j \in 1..(i - 1) : SizeClasses[j] < bytes]

RuneSliceCap(n, onStack) ==
    IF onStack /\ n <= tmpStringBufSize THEN tmpStringBufSize
    ELSE roundupsize(4 * n) \div 4

Panicked == [panic |-> TRUE, word |-> <<>>]

IndexPanic == [panic |-> TRUE, index |-> 0]

\* findAlternateNameWordStartIndex: alternateNames[wordStartIndex] is bounds
\* checked against len(alternateNames)
RECURSIVE findAlternateNameWordStartIndex(_, _)
findAlternateNameWordStartIndex(alternateNames, wordStartIndex) ==
    IF wordStartIndex > 0
    THEN IF wordStartIndex >= Len(alternateNames)
         THEN IndexPanic
         ELSE IF alternateNames[wordStartIndex + 1] = ","
              THEN [panic |-> FALSE, index |-> wordStartIndex + 1]
              ELSE findAlternateNameWordStartIndex(alternateNames, wordStartIndex - 1)
    ELSE [panic |-> FALSE, index |-> wordStartIndex]

\* findAlternateNameWordEndIndex
RECURSIVE findAlternateNameWordEndIndex(_, _)
findAlternateNameWordEndIndex(alternateNames, wordEndIndex) ==
    IF wordEndIndex < Len(alternateNames)
    THEN IF alternateNames[wordEndIndex + 1] = ","
         THEN wordEndIndex - 1
         ELSE findAlternateNameWordEndIndex(alternateNames, wordEndIndex + 1)
    ELSE wordEndIndex

\* string(a[low:high]) of a rune slice of capacity cap: the slice expression
\* panics unless 0 <= low <= high <= cap; runes past len(a) are zero
SliceToString(a, low, high, cap) ==
    IF low < 0 \/ low > high \/ high > cap
    THEN Panicked
    ELSE [panic |-> FALSE,
          word |-> [i \in 1..(high - low) |->
                       IF low + i <= Len(a) THEN a[low + i] ELSE "NUL"]]

\* string(alternateNames[indexWordStart : indexWordEnd+1])
WordBetween(alternateNames, start, indexWordEnd, cap) ==
    IF start.panic
    THEN Panicked
    ELSE SliceToString(alternateNames, start.index, indexWordEnd + 1, cap)

\* the body of findMatchingAlternateNameWholeWord once indexMatch is known
WordAround(alternateNames, indexMatch, nameRunes, onStack) ==
    WordBetween(alternateNames,
                findAlternateNameWordStartIndex(alternateNames, indexMatch),
                findAlternateNameWordEndIndex(alternateNames, indexMatch + nameRunes),
                RuneSliceCap(Len(alternateNames), onStack))

\* findMatchingAlternateNameWholeWord: indexMatch is a byte offset into the
\* lower-cased string, used as an index into the runes of the original
findMatchingAlternateNameWholeWord(alternateNamesStr, name, onStack) ==
    WordAround(alternateNamesStr, Index(ToLower(alternateNamesStr), name),
               RuneCountInString(name), onStack)

(***************************************************************************)
(* float64.  A finite coordinate is an integer count of 1/10000 degree; a  *)
(* value is finite, +Inf, -Inf or NaN.                                     *)
(***************************************************************************)
DegreeUnits == 10000

Fin(v) == [k |-> "fin", v |-> v]

PInf == [k |-> "pinf", v |-> 0]

NInf == [k |-> "ninf", v |-> 0]

NaN == [k |-> "nan", v |-> 0]

DigitRunes == <<"0","1","2","3","4","5","6","7","8","9">>

DigitOf == [c \in {DigitRunes[i] : i \in 1..10} |-> (CHOOSE i \in 1..10 : DigitRunes[i] = c) - 1]

IsDigits(s) == \A i \in 1..Len(s) : s[i] \in DOMAIN DigitOf

RECURSIVE DecimalFrom(_, _, _)
DecimalFrom(s, i, acc) ==
    IF i > Len(s) THEN acc ELSE DecimalFrom(s, i + 1, 10 * acc + DigitOf[s[i]])

\* the number a string of digits writes
DecimalValue(s) == DecimalFrom(s, 1, 0)

RECURSIVE Pow10(_)
Pow10(n) == IF n = 0 THEN 1 ELSE 10 * Pow10(n - 1)

\* position of the first c in s, 0 when there is none
PositionOf(s, c) ==
    IF \E i \in 1..Len(s) : s[i] = c
    THEN CHOOSE i \in 1..Len(s) : s[i] = c /\ \A j \in 1..(i - 1) : s[j] # c
    ELSE 0

\* s before position p, all of s when p is 0
Before(s, p) == IF p = 0 THEN s ELSE SubSeq(s, 1, p - 1)

\* s after position p, nothing when p is 0
After(s, p) == IF p = 0 THEN <<>> ELSE SubSeq(s, p + 1, Len(s))

SyntaxError == [err |-> TRUE, f |-> Fin(0)]

\* units * 10^e (10^-e when negative).  A value of at least 1 with an exponent
\* above 308 is out of float64's range: +Inf with ErrRange.
Scaled10(units, e, negative) ==
    IF units = 0 THEN [err |-> FALSE, f |-> Fin(0)]
    ELSE IF ~negative /\ e > 308 /\ units >= DegreeUnits THEN [err |-> TRUE, f |-> PInf]
    ELSE IF negative THEN [err |-> FALSE, f |-> Fin(units \div Pow10(e))]
    ELSE [err |-> FALSE, f |-> Fin(units * Pow10(e))]

\* the digits of an exponent, its sign dropped
ExponentDigits(expo) ==
    IF expo # <<>> /\ expo[1] \in {"+", "-"} THEN Tail(expo) ELSE expo

\* intPart "." fracPart "e" expo; a fraction has at most four digits here
ParseParts(intPart, fracPart, hasExponent, expo) ==
    IF \/ ~IsDigits(intPart)
       \/ ~IsDigits(fracPart)
       \/ Len(intPart) + Len(fracPart) = 0
       \/ (hasExponent /\ (ExponentDigits(expo) = <<>> \/ ~IsDigits(ExponentDigits(expo))))
    THEN SyntaxError
    ELSE Scaled10(DecimalValue(intPart) * DegreeUnits
                      + DecimalValue(fracPart) * Pow10(4 - Len(fracPart)),
                  DecimalValue(ExponentDigits(expo)),
                  expo # <<>> /\ expo[1] = "-")

ParseMantissa(mant, dot, hasExponent, expo) ==
    ParseParts(Before(mant, dot), After(mant, dot), hasExponent, expo)

ParseAtExponent(s, ePos) ==
    ParseMantissa(Before(s, ePos), PositionOf(Before(s, ePos), "."), ePos # 0, After(s, ePos))

\* the unsigned part of a float literal: digits [. digits] [e [+-] digits]
ParseUnsigned(s) == ParseAtExponent(s, PositionOf(ToLower(s), "e"))

FNeg(x) ==
    CASE x.k = "fin" -> Fin(0 - x.v)
      [] x.k = "pinf" -> NInf
      [] x.k = "ninf" -> PInf
      [] OTHER -> NaN

Negated(r, negative) ==
    IF negative /\ ~(r.err /\ r.f.k = "fin") THEN [r EXCEPT !.f = FNeg(@)] ELSE r

\* a literal without its sign: "inf", "infinity" or a number
ParseBody(body) ==
    IF ToLower(body) \in {<<"i","n","f">>, <<"i","n","f","i","n","i","t","y">>}
    THEN [err |-> FALSE, f |-> PInf]
    ELSE ParseUnsigned(body)

\* strconv.ParseFloat(s, 64): the value and whether err != nil.  The value
\* returned with a syntax error is 0, with a range error +Inf or -Inf.
ParseFloat(s) ==
    IF ToLower(s) = <<"n","a","n">>
    THEN [err |-> FALSE, f |-> NaN]
    ELSE IF s # <<>> /\ s[1] \in {"+", "-"}
    THEN Negated(ParseBody(Tail(s)), s[1] = "-")
    ELSE ParseBody(s)

\* x - y
FSub(x, y) ==
    CASE x.k = "nan" \/ y.k = "nan" -> NaN
      [] x.k = "fin" /\ y.k = "fin" -> Fin(x.v - y.v)
      [] x.k = "fin" -> FNeg(y)
      [] y.k = "fin" -> x
      [] x.k = y.k -> NaN
      [] OTHER -> x

\* math.Abs
FAbs(x) ==
    CASE x.k = "fin" -> Fin(IF x.v < 0 THEN 0 - x.v ELSE x.v)
      [] x.k = "nan" -> NaN
      [] OTHER -> PInf

(***************************************************************************)
(* A weight is n/d (d > 0), +Inf, -Inf or NaN.                             *)
(***************************************************************************)
Ratio(n, d) ==
    IF d # 0 THEN [k |-> "fin", n |-> n, d |-> d]
    ELSE IF n > 0 THEN [k |-> "pinf", n |-> 0, d |-> 1]
    ELSE IF n < 0 THEN [k |-> "ninf", n |-> 0, d |-> 1]
    ELSE [k |-> "nan", n |-> 0, d |-> 1]

\* 1 - distance / maximumRange, the range given in degrees
OneMinusRatio(distance, maximumRange) ==
    CASE distance.k = "fin" ->
             Ratio(maximumRange * DegreeUnits - distance.v, maximumRange * DegreeUnits)
      [] distance.k = "pinf" -> [k |-> "ninf", n |-> 0, d |-> 1]
      [] distance.k = "ninf" -> [k |-> "pinf", n |-> 0, d |-> 1]
      [] OTHER -> [k |-> "nan", n |-> 0, d |-> 1]

Sign(n) == IF n > 0 THEN 1 ELSE IF n < 0 THEN 0 - 1 ELSE 0

\* sign of a weight or score that is not NaN
SignOf(x) ==
    CASE x.k = "fin" -> Sign(x.n)
      [] x.k = "pinf" -> 1
      [] OTHER -> 0 - 1

\* the kind of x * y in IEEE 754 arithmetic, from the kinds and signs
ProductKind(xk, xs, yk, ys) ==
    IF xk = "nan" \/ yk = "nan" THEN "nan"
    ELSE IF xk = "fin" /\ yk = "fin" THEN "fin"
    ELSE IF xs * ys = 0 THEN "nan"
    ELSE IF xs * ys > 0 THEN "pinf"
    ELSE "ninf"

\* x * y * z, left to right.  A finite product keeps its numerator and
\* denominator as the three factors of each (their product does not fit the
\* integers of the checker); n is kept only for its sign.
Product3(x, y, z) ==
    LET xyk == ProductKind(x.k, SignOf(x), y.k, SignOf(y))
        xys == IF xyk = "fin" THEN Sign(x.n) * Sign(y.n)
               ELSE IF xyk = "pinf" THEN 1 ELSE 0 - 1
        k == ProductKind(xyk, xys, z.k, SignOf(z))
    IN  IF k = "fin"
        THEN [k |-> "fin", n |-> Sign(x.n) * Sign(y.n) * Sign(z.n),
              num |-> <<x.n, y.n, z.n>>, den |-> <<x.d, y.d, z.d>>]
        ELSE [k |-> k, n |-> 0, num |-> <<0, 0, 0>>, den |-> <<1, 1, 1>>]

Abs(n) == IF n < 0 THEN 0 - n ELSE n

\* x * y for 0 <= x, y below 2^31, as <<high, low>> in base 10^8
BigMul(x, y) ==
    LET x1 == x \div 10000
        x0 == x % 10000
        y1 == y \div 10000
        y0 == y % 10000
        cross == x1 * y0 + x0 * y1
        low == (cross % 10000) * 10000 + x0 * y0
    IN  <<x1 * y1 + cross \div 10000 + low \div 100000000, low % 100000000>>

BigLess(a, b) == a[1] < b[1] \/ (a[1] = b[1] /\ a[2] < b[2])

\* the numerator of weight number i of a finite score over the whole
\* coordinate range: a weight is either 1 or a ratio over that range
Scaled(s, i, maximumRange) ==
    Abs(s.num[i]) * ((maximumRange * DegreeUnits) \div s.den[i])

\* |s| < |t| for finite scores s and t, cross-multiplied
MagnitudeLess(s, t) ==
    BigLess(BigMul(Abs(s.num[1]) * t.den[1] * Scaled(s, 2, 180), Scaled(s, 3, 360)),
            BigMul(Abs(t.num[1]) * s.den[1] * Scaled(t, 2, 180), Scaled(t, 3, 360)))

\* s > t on float scores; every comparison with NaN is false
Greater(s, t) ==
    IF s.k = "nan" \/ t.k = "nan" THEN FALSE
    ELSE IF s.k = "pinf" THEN t.k # "pinf"
    ELSE IF s.k = "ninf" THEN FALSE
    ELSE IF t.k = "pinf" THEN FALSE
    ELSE IF t.k = "ninf" THEN TRUE
    ELSE IF s.n # t.n THEN s.n > t.n
    ELSE IF s.n > 0 THEN MagnitudeLess(t, s)
    ELSE IF s.n < 0 THEN MagnitudeLess(s, t)
    ELSE FALSE

(***************************************************************************)
(* Record field accessors.                                                 *)
(***************************************************************************)
Dash == <<"-">>

fetchCityNameOf(record) ==
    IF Len(record) > cityNameIndex THEN record[cityNameIndex + 1] ELSE Dash

fetchCountryNameOf(record) ==
    IF Len(record) > cityCountryCodeIndex THEN record[cityCountryCodeIndex + 1] ELSE Dash

fetchFirstAdministrationLevelOf(record) ==
    IF Len(record) > cityAdminLevel1CodeIndex
    THEN record[cityAdminLevel1CodeIndex + 1]
    ELSE Dash

fetchLatitude(record) ==
    IF Len(record) > cityLatitudeIndex
    THEN ParseFloat(record[cityLatitudeIndex + 1]).f
    ELSE Fin(0)

fetchLongitude(record) ==
    IF Len(record) > cityLongitudeIndex
    THEN ParseFloat(record[cityLongitudeIndex + 1]).f
    ELSE Fin(0)

(***************************************************************************)
(* Scoring.                                                                *)
(***************************************************************************)
latitudeMaximumRange == 180

longitudeMaximumRange == 360

One == Ratio(1, 1)

computeMatchingCharWeight(name, matchedWord) ==
    Ratio(RuneCountInString(name), RuneCountInString(matchedWord))

\* the weight for a parsed query coordinate and the record's coordinate
DistanceWeight(parsed, recordCoordinate, maximumRange) ==
    IF ~parsed.err
    THEN OneMinusRatio(FAbs(FSub(parsed.f, recordCoordinate)), maximumRange)
    ELSE One

computeLatitudeScoreWeight(q, record) ==
    DistanceWeight(ParseFloat(q.latitude), fetchLatitude(record), latitudeMaximumRange)

computeLongitudeScoreWeight(q, record) ==
    DistanceWeight(ParseFloat(q.longitude), fetchLongitude(record), longitudeMaximumRange)

\* the score without the longitude weight
computeScoreFor_NoLongitudeWeight(q, matchedWord, record) ==
    Product3(computeMatchingCharWeight(q.name, matchedWord),
             computeLatitudeScoreWeight(q, record),
             One)

computeScoreFor(q, matchedWord, record) ==
    Product3(computeMatchingCharWeight(q.name, matchedWord),
             computeLatitudeScoreWeight(q, record),
             computeLongitudeScoreWeight(q, record))

(***************************************************************************)
(* Matching.  q.name is already lower-cased.  record[i] of a record with   *)
(* no field i is an index out of range: the call panics.                   *)
(***************************************************************************)
ZeroScore == Product3(Ratio(0, 1), One, One)

NoWordMatch == [panic |-> FALSE, matched |-> FALSE, word |-> <<>>]

WordPanic == [panic |-> TRUE, matched |-> FALSE, word |-> <<>>]

WordMatch(word) == [panic |-> FALSE, matched |-> TRUE, word |-> word]

\* the alternate-names branch: the whole word, or the panic of its extraction
AlternateWord(w) == IF w.panic THEN WordPanic ELSE WordMatch(w.word)

\* matchQueryName without its alternate-names branch
matchedWordOf_NoAlternateNames(record, name, onStack) ==
    IF Contains(ToLower(fetchCityNameOf(record)), name)
    THEN WordMatch(fetchCityNameOf(record))
    ELSE IF Len(record) <= cityASCIINameIndex
    THEN WordPanic
    ELSE IF Contains(ToLower(record[cityASCIINameIndex + 1]), name)
    THEN WordMatch(record[cityASCIINameIndex + 1])
    ELSE NoWordMatch

\* the if / else-if chain of matchQueryName: which field matches and the
\* matched word handed to computeScoreFor
matchedWordOf(record, name, onStack) ==
    IF Contains(ToLower(fetchCityNameOf(record)), name)
    THEN WordMatch(fetchCityNameOf(record))
    ELSE IF Len(record) <= cityASCIINameIndex
    THEN WordPanic
    ELSE IF Contains(ToLower(record[cityASCIINameIndex + 1]), name)
    THEN WordMatch(record[cityASCIINameIndex + 1])
    ELSE IF Len(record) <= cityAlernateNamesIndex
    THEN WordPanic
    ELSE IF Contains(ToLower(record[cityAlernateNamesIndex + 1]), name)
    THEN AlternateWord(findMatchingAlternateNameWholeWord(
                           record[cityAlernateNamesIndex + 1], name, onStack))
    ELSE NoWordMatch

\* (matched, float32(score)) of matchQueryName for the chosen word
ScoredMatch(w, q, record) ==
    [panic |-> w.panic,
     matched |-> w.matched,
     score |-> IF w.matched THEN computeScoreFor(q, w.word, record) ELSE ZeroScore]

matchQueryName(record, q, onStack) ==
    ScoredMatch(matchedWordOf(record, q.name, onStack), q, record)

\* fmt.Sprintf("%s, %s, %s", ...)
DisplayName(record) ==
    fetchCityNameOf(record) \o <<",", " ">> \o fetchFirstAdministrationLevelOf(record)
        \o <<",", " ">> \o fetchCountryNameOf(record)

\* the match appended for a matched record
NewMatch(record, score) ==
    [Name |-> DisplayName(record),
     Latitude |-> fetchLatitude(record),
     Longitude |-> fetchLongitude(record),
     Score |-> score]

\* the query as the scan loop sees it: query.name = strings.ToLower(query.name)
Lowered(q) == [q EXCEPT !.name = ToLower(q.name)]

\* the scan loop from record number i on (1-based), suggestions so far in acc
RECURSIVE ScanFrom(_, _, _, _, _)
RECURSIVE ScanOne(_, _, _, _, _, _)
ScanOne(recs, q, onStack, i, acc, m) ==
    IF m.panic
    THEN [panic |-> TRUE, list |-> acc, scanned |-> i]
    ELSE ScanFrom(recs, q, onStack, i + 1,
                  IF m.matched THEN Append(acc, NewMatch(recs[i], m.score)) ELSE acc)

ScanFrom(recs, q, onStack, i, acc) ==
    IF i > Len(recs)
    THEN [panic |-> FALSE, list |-> acc, scanned |-> Len(recs)]
    ELSE ScanOne(recs, q, onStack, i, acc, matchQueryName(recs[i], q, onStack))

\* findSuggestionsFor without the early return on an empty name
findSuggestionsFor_NoEarlyReturn(recs, q, onStack) ==
    ScanFrom(recs, Lowered(q), onStack, 1, <<>>)

findSuggestionsFor(recs, q, onStack) ==
    IF q.name = <<>>
    THEN [panic |-> FALSE, list |-> <<>>, scanned |-> 0]
    ELSE ScanFrom(recs, Lowered(q), onStack, 1, <<>>)

(***************************************************************************)
(* Ranking: sort.SliceStable is an insertion sort below 20 elements.       *)
(***************************************************************************)
less(x, y) == Greater(x.Score, y.Score)

Swap(s, i, j) == [s EXCEPT ![i] = s[j], ![j] = s[i]]

\* for j := i; j > a && less(j, j-1); j-- { swap(j, j-1) }
RECURSIVE SinkDown(_, _)
SinkDown(s, j) ==
    IF j > 1 /\ less(s[j], s[j - 1]) THEN SinkDown(Swap(s, j, j - 1), j - 1) ELSE s

RECURSIVE insertionSort(_, _)
insertionSort(s, i) ==
    IF i > Len(s) THEN s ELSE insertionSort(SinkDown(s, i), i + 1)

SliceStable(s) == insertionSort(s, 2)

Ranked(suggestions) ==
    IF suggestions.panic
    THEN suggestions
    ELSE [suggestions EXCEPT !.list = SliceStable(@)]

FindRankedSuggestionsFor(recs, q, onStack) ==
    Ranked(findSuggestionsFor(recs, q, onStack))

(***************************************************************************)
(* Inputs: the rows a store is loaded from and the queries a request may   *)
(* carry.  A row is <<id, name, ASCII name, alternate names, latitude,     *)
(* longitude, class, code, country, cc2, admin1>>; a short row is a prefix.*)
(***************************************************************************)
Row(name, ascii, alt, lat, lon, country, admin) ==
    << <<"1">>, name, ascii, alt, lat, lon, <<"P">>, <<"P">>, country, <<>>, admin >>

ParisLat == <<"4","8",".","8","5","6","6">>

ParisLon == <<"2",".","3","5","2","2">>

Paris ==
    Row(<<"P","a","r","i","s">>, <<"P","a","r","i","s">>, <<>>,
        ParisLat, ParisLon, <<"F","R">>, <<"A","8">>)

\* a row of four fields, alternate names "Lug,Par,Lio"
Lyon ==
    << <<"2">>, <<"L","y","o","n">>, <<"L","y","o","n">>,
       <<"L","u","g",",","P","a","r",",","L","i","o">> >>

\* name "Évry", alternate names "éb,ab,c", latitude "NaN", longitude "1e999"
Evry ==
    Row(<<"E2","v","r","y">>, <<"E","v","r","y">>,
        <<"e2","b",",","a","b",",","c">>,
        <<"N","a","N">>, <<"1","e","9","9","9">>, <<"F","R">>, <<"A","8">>)

\* alternate names "a,,b,c", latitude not a number, longitude -180
Pole ==
    Row(<<"P","o">>, <<"P","o">>, <<"a",",",",","b",",","c">>,
        <<"a","b","c">>, <<"-","1","8","0">>, <<"A","Q">>, <<"0","0">>)

\* a row of one field: csv.Reader with FieldsPerRecord = -1 keeps rows of any
\* number of fields and skips empty lines, so a loaded row has at least one
IdOnly == << <<"3">> >>

Records == {Paris, Lyon, Evry, Pole, IdOnly, SubSeq(Paris, 1, 3)}

SeqsUpTo(S, n) == UNION {[1..m -> S] : m \in 0..n}

Stores == SeqsUpTo(Records, MaxStore)

QueryNames ==
    {<<>>, <<"p","a","r">>, <<"P","a","R">>, <<"p","a","r","i","s">>, <<"l">>,
     <<"l","i","o">>, <<"e","v">>, <<"a","b">>, <<",">>, <<",","b">>, <<"-">>, <<"r">>}

\* <<latitude, longitude>> of a request
QueryHints ==
    {<< <<>>, <<>> >>, <<ParisLat, ParisLon>>,
     << <<"9","0">>, <<"a","b","c">> >>, << <<"x">>, <<"1","8","0">> >>}

Queries ==
    {[name |-> n, latitude |-> h[1], longitude |-> h[2]] :
        n \in QueryNames, h \in QueryHints}

ConcRecords == {Paris, Lyon, SubSeq(Paris, 1, 3)}

ConcStores ==
    {st \in SeqsUpTo(ConcRecords, Cardinality(ConcRecords)) :
        \A i, j \in 1..Len(st) : i # j => st[i] # st[j]}

ConcQueries ==
    {[name |-> <<"P","a","r">>, latitude |-> <<>>, longitude |-> <<>>],
     [name |-> <<"l">>, latitude |-> <<"9","0">>, longitude |-> <<"a","b","c">>]}

AltRunes == {"a", "B", ",", "e2"}

Requests == 1..NumRequests

NoQuery == [name |-> <<>>, latitude |-> <<>>, longitude |-> <<>>]

NoWord == [called |-> FALSE, panic |-> FALSE, word |-> <<>>]

(***************************************************************************)
(* Spec: one request at a time, the handler of GET /suggestions as one     *)
(* step (parseCityQuery, FindRankedSuggestionsFor), then the response.     *)
(***************************************************************************)
IdleRequests ==
    /\ pc = [r \in Requests |-> "idle"]
    /\ query = [r \in Requests |-> NoQuery]
    /\ scanned = [r \in Requests |-> 0]
    /\ result = [r \in Requests |-> <<>>]

NoWordCall ==
    /\ recordAlternateNames = <<>>
    /\ queryName = <<>>
    /\ wholeWord = NoWord

Init ==
    /\ records \in Stores
    /\ loaded = records
    /\ stackBuf \in BOOLEAN
    /\ IdleRequests
    /\ NoWordCall

\* the handler holds the outcome of FindRankedSuggestionsFor
Outcome(r, out) ==
    /\ pc' = [pc EXCEPT ![r] = IF out.panic THEN "panic" ELSE "done"]
    /\ scanned' = [scanned EXCEPT ![r] = out.scanned]
    /\ result' = [result EXCEPT ![r] = IF out.panic THEN <<>> ELSE out.list]

Serve(r, q) ==
    /\ pc[r] = "idle"
    /\ Outcome(r, FindRankedSuggestionsFor(records, q, stackBuf))
    /\ query' = [query EXCEPT ![r] = q]
    /\ UNCHANGED <<records, loaded, stackBuf, recordAlternateNames, queryName, wholeWord>>

\* context.IndentedJSON and the handler's return
Respond(r) ==
    /\ pc[r] = "done"
    /\ pc' = [pc EXCEPT ![r] = "idle"]
    /\ query' = [query EXCEPT ![r] = NoQuery]
    /\ scanned' = [scanned EXCEPT ![r] = 0]
    /\ result' = [result EXCEPT ![r] = <<>>]
    /\ UNCHANGED <<records, loaded, stackBuf, recordAlternateNames, queryName, wholeWord>>

\* a panic unwinds the handler; net/http recovers it and drops the request
Abort(r) ==
    /\ pc[r] = "panic"
    /\ pc' = [pc EXCEPT ![r] = "idle"]
    /\ query' = [query EXCEPT ![r] = NoQuery]
    /\ scanned' = [scanned EXCEPT ![r] = 0]
    /\ result' = [result EXCEPT ![r] = <<>>]
    /\ UNCHANGED <<records, loaded, stackBuf, recordAlternateNames, queryName, wholeWord>>

Next ==
    \/ \E q \in Queries : Serve(1, q)
    \/ Respond(1)
    \/ Abort(1)

Spec == Init /\ [][Next]_vars

(***************************************************************************)
(* SpecConc: several requests at once on the same store, each handler      *)
(* goroutine advancing one scan-loop iteration at a time.                  *)
(***************************************************************************)
InitConc ==
    /\ records \in ConcStores
    /\ loaded = records
    /\ stackBuf \in BOOLEAN
    /\ IdleRequests
    /\ NoWordCall

\* every request appending to one list shared by all of them
appendMatch_SharedList(res, r, m) == [res EXCEPT ![1] = Append(@, m)]

\* result.Suggestions = append(result.Suggestions, match), on the request's own list
appendMatch(res, r, m) == [res EXCEPT ![r] = Append(@, m)]

\* entry of findSuggestionsFor: the empty result, the early return
Begin(r, q) ==
    /\ pc[r] = "idle"
    /\ query' = [query EXCEPT ![r] = q]
    /\ result' = [result EXCEPT ![r] = <<>>]
    /\ scanned' = [scanned EXCEPT ![r] = 0]
    /\ pc' = [pc EXCEPT ![r] = IF q.name = <<>> \/ Len(records) = 0 THEN "sort" ELSE "scan"]
    /\ UNCHANGED <<records, loaded, stackBuf, recordAlternateNames, queryName, wholeWord>>

\* the loop body for one record and the outcome m of matchQueryName on it
Scanned(r, record, m) ==
    /\ scanned' = [scanned EXCEPT ![r] = @ + 1]
    /\ result' = IF ~m.panic /\ m.matched
                 THEN appendMatch(result, r, NewMatch(record, m.score))
                 ELSE result
    /\ pc' = [pc EXCEPT ![r] = IF m.panic THEN "panic"
                               ELSE IF scanned[r] + 1 = Len(records) THEN "sort"
                               ELSE "scan"]

\* one iteration of the loop over repository.records
ScanStep(r) ==
    /\ pc[r] = "scan"
    /\ Scanned(r, records[scanned[r] + 1],
               matchQueryName(records[scanned[r] + 1], Lowered(query[r]), stackBuf))
    /\ UNCHANGED <<records, loaded, stackBuf, query, recordAlternateNames, queryName, wholeWord>>

\* sort.SliceStable and the return of FindRankedSuggestionsFor
SortStep(r) ==
    /\ pc[r] = "sort"
    /\ result' = [result EXCEPT ![r] = SliceStable(@)]
    /\ pc' = [pc EXCEPT ![r] = "done"]
    /\ UNCHANGED <<records, loaded, stackBuf, query, scanned, recordAlternateNames, queryName, wholeWord>>

NextConc ==
    \E r \in Requests :
        \/ \E q \in ConcQueries : Begin(r, q)
        \/ ScanStep(r)
        \/ SortStep(r)
        \/ Respond(r)
        \/ Abort(r)

SpecConc == InitConc /\ [][NextConc]_vars

(***************************************************************************)
(* SpecWord: findMatchingAlternateNameWholeWord on every alternate-names   *)
(* string and every lower-cased query name that occurs in it.              *)
(***************************************************************************)
InitWord ==
    /\ records = <<>>
    /\ loaded = <<>>
    /\ stackBuf \in BOOLEAN
    /\ IdleRequests
    /\ recordAlternateNames \in SeqsUpTo(AltRunes, MaxAlt)
    /\ queryName \in {ToLower(n) : n \in SeqsUpTo(AltRunes, MaxQueryName)} \ {<<>>}
    /\ Contains(ToLower(recordAlternateNames), queryName)
    /\ wholeWord = NoWord

\* wholeWord holds the outcome w of the call
WordOutcome(w) == wholeWord' = [called |-> TRUE, panic |-> w.panic, word |-> w.word]

FindWord ==
    /\ ~wholeWord.called
    /\ WordOutcome(findMatchingAlternateNameWholeWord(
                       recordAlternateNames, queryName, stackBuf))
    /\ UNCHANGED <<records, loaded, stackBuf, pc, query, scanned, result,
                   recordAlternateNames, queryName>>

NextWord == FindWord

SpecWord == InitWord /\ [][NextWord]_vars

(***************************************************************************)
(* Vocabulary of the properties.                                           *)
(***************************************************************************)
\* sub is s[p .. p + Len(sub) - 1] for some p
Substring(s, sub) ==
    \E p \in 1..(Len(s) - Len(sub) + 1) : SubSeq(s, p, p + Len(sub) - 1) = sub

\* field number index of a record, the default when the row is too short
FieldOr(record, index, default) ==
    IF Len(record) > index THEN record[index + 1] ELSE default

\* a name field of the record contains the query name, both lower-cased
NameFieldContains(record, index, name) ==
    Substring(ToLower(record[index + 1]), ToLower(name))

RecordMatches(record, name) ==
    \/ Substring(ToLower(FieldOr(record, cityNameIndex, Dash)), ToLower(name))
    \/ Len(record) > cityASCIINameIndex /\ NameFieldContains(record, cityASCIINameIndex, name)
    \/ Len(record) > cityAlernateNamesIndex
       /\ NameFieldContains(record, cityAlernateNamesIndex, name)

Count(seq, x) == Cardinality({i \in 1..Len(seq) : seq[i] = x})

SameBag(a, b) ==
    /\ Len(a) = Len(b)
    /\ \A i \in 1..Len(a) : Count(a, a[i]) = Count(b, a[i])

Max(S) == CHOOSE x \in S : \A y \in S : y <= x

Min(S) == CHOOSE x \in S : \A y \in S : x <= y

\* the comma-delimited token of alt around the first occurrence of name
ContainingToken(alt, name) ==
    LET at == Min({p \in 1..(Len(alt) - Len(name) + 1) :
                      SubSeq(ToLower(alt), p, p + Len(name) - 1) = name})
        first == 1 + Max({0} \cup {j \in 1..(at - 1) : alt[j] = ","})
        last == Min({Len(alt) + 1} \cup {j \in (at + Len(name))..Len(alt) : alt[j] = ","}) - 1
    IN  SubSeq(alt, first, last)

HasComma(s) == \E i \in 1..Len(s) : s[i] = ","

Names(list) == [i \in 1..Len(list) |-> list[i].Name]

NamesAndScores(list) == [i \in 1..Len(list) |-> <<list[i].Name, list[i].Score>>]

\* two scores are the same number
SameValue(s, t) == s.k = t.k /\ ~Greater(s, t) /\ ~Greater(t, s)

Scalar(n, d) == Product3(Ratio(n, d), One, One)

ParisName == <<"P","a","r","i","s",","," ","A","8",","," ","F","R">>

Served(r) == pc[r] = "done" /\ query[r].name # <<>>

(***************************************************************************)
(* C1.  A record with fewer than 11 fields never makes                     *)
(* FindRankedSuggestionsFor fail: a call that panics did not stop at a     *)
(* short row.                                                              *)
(***************************************************************************)
C1_ShortRowNeverFails ==
    \A r \in Requests :
        pc[r] = "panic" => Len(records[scanned[r]]) > cityAdminLevel1CodeIndex

(***************************************************************************)
(* C2.  For a query name without a comma that occurs in the alternate      *)
(* names, findMatchingAlternateNameWholeWord returns exactly the           *)
(* comma-delimited token that contains the first occurrence.               *)
(***************************************************************************)
C2_WholeWordIsContainingToken ==
    (wholeWord.called /\ ~HasComma(queryName)) =>
        /\ ~wholeWord.panic
        /\ wholeWord.word = ContainingToken(recordAlternateNames, queryName)

(***************************************************************************)
(* C3.  For a non-empty query name the result holds exactly one suggestion *)
(* for each record one of whose three name fields contains the name, lower *)
(* case compared, and none for any other record, whatever the latitude and *)
(* longitude of the query.                                                 *)
(***************************************************************************)
C3_MatchingRecord(record) == RecordMatches(record, query[1].name)

C3_ExactlyTheMatchingRecords ==
    Served(1) =>
        SameBag(Names(result[1]),
                Names([i \in 1..Len(SelectSeq(records, C3_MatchingRecord)) |->
                          [Name |-> DisplayName(SelectSeq(records, C3_MatchingRecord)[i])]]))

C3_Witness ==
    /\ Served(1)
    /\ query[1].name = <<"P","a","R">>
    /\ query[1].latitude = <<"9","0">>
    /\ Len(result[1]) = 2
    /\ Len(records) = 3

(***************************************************************************)
(* C4.  The returned list is ordered by score descending, and entries of   *)
(* equal score keep the order of their records in the store.               *)
(***************************************************************************)
C4_Arranges(pi, unsorted, sorted) ==
    /\ \A i \in 1..Len(sorted) : sorted[i] = unsorted[pi[i]]
    /\ \A i, j \in 1..Len(sorted) :
           i < j => /\ ~Greater(sorted[j].Score, sorted[i].Score)
                    /\ SameValue(sorted[i].Score, sorted[j].Score) => pi[i] < pi[j]

C4_DescendingAndStable ==
    \A r \in Requests :
        pc[r] = "done" =>
            \E pi \in Permutations(1..Len(result[r])) :
                C4_Arranges(pi, findSuggestionsFor(records, query[r], stackBuf).list,
                            result[r])

(***************************************************************************)
(* C5.  A query whose name is empty yields an empty suggestion list, and   *)
(* no record is scanned.                                                   *)
(***************************************************************************)
C5_EmptyNameEmptyResult ==
    \A r \in Requests :
        (pc[r] # "idle" /\ query[r].name = <<>>) =>
            /\ pc[r] = "done"
            /\ result[r] = <<>>
            /\ scanned[r] = 0

C5_Witness ==
    /\ pc[1] = "done"
    /\ query[1].name = <<>>
    /\ query[1].latitude = ParisLat
    /\ Len(records) = MaxStore

(***************************************************************************)
(* C6.  The score of a suggestion is matchingCharWeight * latitudeWeight * *)
(* longitudeWeight: the rune count of the query name over that of the      *)
(* matched word, 1 - |query - record| / 180 for a latitude hint that       *)
(* parses and 1 otherwise, the same over 360 for the longitude; Paris      *)
(* scores 1 for "paris" without hints and 3/5 for "par" at its own         *)
(* coordinates.                                                            *)
(***************************************************************************)
C6_AxisWeight(hint, coordinate, range) ==
    IF ParseFloat(hint).err
    THEN Ratio(1, 1)
    ELSE OneMinusRatio(FAbs(FSub(ParseFloat(hint).f, coordinate)), range)

C6_Score(record, q) ==
    Product3(Ratio(Len(q.name),
                   Len(matchedWordOf(record, ToLower(q.name), stackBuf).word)),
             C6_AxisWeight(q.latitude, fetchLatitude(record), 180),
             C6_AxisWeight(q.longitude, fetchLongitude(record), 360))

C6_Matched(record) == matchedWordOf(record, ToLower(query[1].name), stackBuf).matched

C6_ParisScores(n, d) ==
    \A i \in 1..Len(result[1]) :
        result[1][i].Name = ParisName => SameValue(result[1][i].Score, Scalar(n, d))

C6_ScoreIsProductOfWeights ==
    Served(1) =>
        /\ SameBag(NamesAndScores(result[1]),
                   [i \in 1..Len(SelectSeq(records, C6_Matched)) |->
                       <<DisplayName(SelectSeq(records, C6_Matched)[i]),
                         C6_Score(SelectSeq(records, C6_Matched)[i], query[1])>>])
        /\ query[1] = [name |-> <<"p","a","r","i","s">>, latitude |-> <<>>,
                       longitude |-> <<>>]
               => C6_ParisScores(1, 1)
        /\ query[1] = [name |-> <<"p","a","r">>, latitude |-> ParisLat,
                       longitude |-> ParisLon]
               => C6_ParisScores(3, 5)

C6_Witness ==
    /\ Served(1)
    /\ query[1] = [name |-> <<"p","a","r">>, latitude |-> ParisLat, longitude |-> ParisLon]
    /\ \E i \in 1..Len(result[1]) : result[1][i].Name = ParisName
    /\ Len(result[1]) = 2

(***************************************************************************)
(* C7.  The matched word used for scoring is the raw primary name if the   *)
(* primary name matches, else the raw ASCII name if it matches, else the   *)
(* single alternate-name token containing the match (query names without a *)
(* comma).                                                                 *)
(***************************************************************************)
C7_Word(record, name) ==
    IF Substring(ToLower(FieldOr(record, cityNameIndex, Dash)), name)
    THEN FieldOr(record, cityNameIndex, Dash)
    ELSE IF NameFieldContains(record, cityASCIINameIndex, name)
    THEN record[cityASCIINameIndex + 1]
    ELSE ContainingToken(record[cityAlernateNamesIndex + 1], name)

C7_Matched(record) == RecordMatches(record, query[1].name)

C7_WordFromFirstMatchingField ==
    (Served(1) /\ ~HasComma(query[1].name)) =>
        SameBag(NamesAndScores(result[1]),
                [i \in 1..Len(SelectSeq(records, C7_Matched)) |->
                    <<DisplayName(SelectSeq(records, C7_Matched)[i]),
                      computeScoreFor(Lowered(query[1]),
                                      C7_Word(SelectSeq(records, C7_Matched)[i],
                                              ToLower(query[1].name)),
                                      SelectSeq(records, C7_Matched)[i])>>])

(***************************************************************************)
(* C8.  Every suggestion is "<name>, <admin1>, <country>" and the          *)
(* coordinates of its record, a missing field read as "-" or 0.0 and a     *)
(* coordinate field that does not parse as a number as 0.0.                *)
(***************************************************************************)
C8_Coordinate(record, index) ==
    IF Len(record) <= index \/ ParseFloat(record[index + 1]).err
    THEN Fin(0)
    ELSE ParseFloat(record[index + 1]).f

C8_Suggestion(record) ==
    [Name |-> FieldOr(record, cityNameIndex, Dash) \o <<",", " ">>
                  \o FieldOr(record, cityAdminLevel1CodeIndex, Dash) \o <<",", " ">>
                  \o FieldOr(record, cityCountryCodeIndex, Dash),
     Latitude |-> C8_Coordinate(record, cityLatitudeIndex),
     Longitude |-> C8_Coordinate(record, cityLongitudeIndex)]

C8_DisplayNameAndCoordinates ==
    \A r \in Requests :
        pc[r] = "done" =>
            \A i \in 1..Len(result[r]) :
                \E j \in 1..Len(records) :
                    /\ RecordMatches(records[j], query[r].name)
                    /\ [Name |-> result[r][i].Name,
                        Latitude |-> result[r][i].Latitude,
                        Longitude |-> result[r][i].Longitude] = C8_Suggestion(records[j])

(***************************************************************************)
(* C9.  No call changes the record store, and under any interleaving of    *)
(* simultaneous queries each query builds and returns the list it returns  *)
(* when run alone.                                                         *)
(***************************************************************************)
C9_Alone(r) == FindRankedSuggestionsFor(records, query[r], stackBuf)

C9_ScanAlone(r) ==
    ScanFrom(SubSeq(records, 1, scanned[r]), Lowered(query[r]), stackBuf, 1, <<>>)

C9_StoreUnchangedAndQueriesIsolated ==
    /\ records = loaded
    /\ \A r \in Requests :
           /\ pc[r] = "done" => ~C9_Alone(r).panic /\ result[r] = C9_Alone(r).list
           /\ pc[r] = "panic" => C9_Alone(r).panic
           /\ pc[r] = "scan" => result[r] = C9_ScanAlone(r).list

C9_Witness ==
    /\ pc[1] = "scan"
    /\ scanned[1] = 1
    /\ Len(result[1]) = 1
    /\ pc[2] = "done"
    /\ Len(result[2]) = 1
    /\ query[1] # query[2]
    /\ Len(records) = 2

(***************************************************************************)
(* C10.  With a non-empty name and hints that do not parse, every          *)
(* suggestion has a score greater than 0 and at most 1.                    *)
(***************************************************************************)
C10_ScoreInUnitInterval ==
    \A r \in Requests :
        (/\ pc[r] = "done"
         /\ ParseFloat(query[r].latitude).err
         /\ ParseFloat(query[r].longitude).err) =>
            \A i \in 1..Len(result[r]) :
                /\ Greater(result[r][i].Score, Scalar(0, 1))
                /\ ~Greater(result[r][i].Score, Scalar(1, 1))

====
